---- MODULE Spec2Model ----
(***************************************************************************)
(* A model of the BK-tree package (src/BKTree/bk_tree_pkg): the Levenshtein *)
(* distance of functions.py, the Node of node.py, the BKTree of bk_tree.py  *)
(* with its builders, and the Keyboard of keyboard.py.                      *)
(*                                                                          *)
(* Seven specifications share the variables: Spec, one BKTree without      *)
(* weights and the calls on it; SpecInsert, the same tree with add_node     *)
(* run one loop iteration at a time; SpecLev, levenshtein_distance alone;   *)
(* SpecKb, one Keyboard and the calls on it; SpecW, a BKTree whose weights  *)
(* come from a Keyboard; SpecNode, the link calls on the Nodes of a tree;   *)
(* SpecF, a BKTree with any weight function.                                *)
(*                                                                          *)
(* Encoding.  A Python str is the tuple of its code points.  A Node object  *)
(* is a record; a reference to a Node is the position of that Node in       *)
(* bk_nodes_dict (every Node the program creates is stored there), and      *)
(* bk_nodes_dict itself, an insertion-ordered dict, is the sequence of its  *)
(* Nodes in insertion order, keyed by their value field.  A dict of links   *)
(* is the sequence of its <<distance, reference>> items in insertion order. *)
(* An optional argument is None or Some(x).                                 *)
(***************************************************************************)
EXTENDS Integers, Sequences, FiniteSets, TLC

\* the BKTree (bk_nodes_dict, root, fn_weights), the Keyboard (keys,
\* keys_weight) and the call that has just ended (ret)
VARIABLES bk_nodes_dict, root, fn_weights, keys, keys_weight, ret

vars == <<bk_nodes_dict, root, fn_weights, keys, keys_weight, ret>>

(***************************************************************************)
(* Bounds of the model.                                                     *)
(***************************************************************************)
\* longest string that is indexed
MaxLen == 2
\* longest string that is looked for
MaxQueryLen == 3
\* largest number of entries of bk_nodes_dict
MaxNodes == 3
\* largest cost a weight function gives to a substitution, and largest
\* default_weight
MaxWeight == 3

\* the alphabet: the code points of 'a' and 'b'
Chars == {97, 98}
Strings == UNION {[1..n -> Chars] : n \in 0..MaxLen}
QueryStrings == UNION {[1..n -> Chars] : n \in 0..MaxQueryLen}
\* an object that is not a str (isinstance(x, str) is False), e.g. the int 0
NotAStr == <<0>>
Values == Strings \cup {NotAStr}
\* the values a link added to an exported record names
LinkNames == {<<c>> : c \in Chars}
\* the radii of the range queries
Radii == 0..MaxQueryLen

None == [some |-> FALSE]
Some(x) == [some |-> TRUE, val |-> x]

Min2(a, b) == IF a <= b THEN a ELSE b
Max2(a, b) == IF a >= b THEN a ELSE b
Min3(a, b, c) == Min2(a, Min2(b, c))
SeqMin(s) == CHOOSE m \in {s[i] : i \in DOMAIN s} : \A i \in DOMAIN s : m <= s[i]
SetMin(S) == CHOOSE m \in S : \A x \in S : m <= x

(***************************************************************************)
(* functions.py: levenshtein_distance                                       *)
(***************************************************************************)
\* isinstance(s, str): every item is a code point (NotAStr holds none)
is_str(s) == \A i \in DOMAIN s : s[i] > 0

\* the TypeError of lines 37-40
lev_raises(s1, s2) == ~is_str(s1) \/ ~is_str(s2)

\* the cost of a substitution, line 71
sub_cost(fw, c1, c2) == IF fw.some THEN fw.val[<<c1, c2>>] ELSE 1

\* an inner loop that never takes the cell above: no deletion
RECURSIVE lev_inner_no_deletion(_, _, _, _, _, _)
lev_inner_no_deletion(previous_distances, current_distances, val_s1, s2, idx, fw) ==
    IF idx > Len(s2) THEN current_distances
    ELSE LET cell == IF val_s1 = s2[idx]
                     THEN previous_distances[idx]
                     ELSE Min2(previous_distances[idx] + sub_cost(fw, val_s1, s2[idx]),
                               current_distances[idx] + 1)
         IN lev_inner_no_deletion(previous_distances, Append(current_distances, cell),
                                  val_s1, s2, idx + 1, fw)

\* the inner loop, lines 64-78: idx is idx_s2 + 1
RECURSIVE lev_inner(_, _, _, _, _, _)
lev_inner(previous_distances, current_distances, val_s1, s2, idx, fw) ==
    IF idx > Len(s2) THEN current_distances
    ELSE LET cell == IF val_s1 = s2[idx]
                     THEN previous_distances[idx]
                     ELSE Min3(previous_distances[idx] + sub_cost(fw, val_s1, s2[idx]),
                               previous_distances[idx + 1] + 1,
                               current_distances[idx] + 1)
         IN lev_inner(previous_distances, Append(current_distances, cell),
                      val_s1, s2, idx + 1, fw)

\* an outer loop that stops one short of max_distance
RECURSIVE lev_rows_eager(_, _, _, _, _, _)
lev_rows_eager(s1, s2, i, current_distances, max_distance, fw) ==
    IF i > Len(s1) THEN current_distances[Len(current_distances)]
    ELSE LET row == lev_inner(current_distances, <<i>>, s1[i], s2, 1, fw)
             min_row_distance == SeqMin(row)
         IN IF max_distance.some /\ min_row_distance + 1 >= max_distance.val
            THEN min_row_distance
            ELSE lev_rows_eager(s1, s2, i + 1, row, max_distance, fw)

\* the outer loop, lines 56-83: i is idx_s1 + 1
RECURSIVE lev_rows(_, _, _, _, _, _)
lev_rows(s1, s2, i, current_distances, max_distance, fw) ==
    IF i > Len(s1) THEN current_distances[Len(current_distances)]
    ELSE LET row == lev_inner(current_distances, <<i>>, s1[i], s2, 1, fw)
             min_row_distance == SeqMin(row)
         IN IF max_distance.some /\ min_row_distance >= max_distance.val
            THEN min_row_distance
            ELSE lev_rows(s1, s2, i + 1, row, max_distance, fw)

\* a distance that takes the shorter length when an argument is empty
levenshtein_distance_short(s1, s2, max_distance, fw) ==
    IF Len(s1) = 0 \/ Len(s2) = 0 THEN Min2(Len(s1), Len(s2))
    ELSE IF s1 = s2 THEN 0
    ELSE LET a == IF Len(s1) < Len(s2) THEN s2 ELSE s1
             b == IF Len(s1) < Len(s2) THEN s1 ELSE s2
         IN lev_rows(a, b, 1, [j \in 1..(Len(b) + 1) |-> j - 1], max_distance, fw)

\* lines 46-83, for two str arguments and case_sensitive = True
levenshtein_distance(s1, s2, max_distance, fw) ==
    IF Len(s1) = 0 \/ Len(s2) = 0 THEN Max2(Len(s1), Len(s2))
    ELSE IF s1 = s2 THEN 0
    ELSE LET a == IF Len(s1) < Len(s2) THEN s2 ELSE s1
             b == IF Len(s1) < Len(s2) THEN s1 ELSE s2
         IN lev_rows(a, b, 1, [j \in 1..(Len(b) + 1) |-> j - 1], max_distance, fw)

(***************************************************************************)
(* node.py: Node                                                            *)
(***************************************************************************)
BKNode(value, is_active) == [value |-> value, is_active |-> is_active, links |-> <<>>]

has_distance(node, distance) == \E i \in DOMAIN node.links : node.links[i][1] = distance

get_link(node, distance) ==
    node.links[CHOOSE i \in DOMAIN node.links : node.links[i][1] = distance][2]

\* the else branch of add_link, line 171
add_link(node, distance, ref) == [node EXCEPT !.links = Append(@, <<distance, ref>>)]

\* set_active that also drops the links of the node
set_active_clearing(node) == [node EXCEPT !.is_active = TRUE, !.links = <<>>]

\* set_active, line 140
set_active(node) == [node EXCEPT !.is_active = TRUE]

\* a set_inactive that sets the flag to the opposite of what it is
set_inactive_toggling(node) == [node EXCEPT !.is_active = ~@]

\* a set_inactive that leaves the flag as it is
set_inactive_kept(node) == node

\* set_inactive, line 149
set_inactive(node) == [node EXCEPT !.is_active = FALSE]

\* Node.to_dict: the links name their child by its value
node_to_dict(d, node) ==
    [value |-> node.value,
     is_active |-> node.is_active,
     links |-> [i \in DOMAIN node.links |-> <<node.links[i][1], d[node.links[i][2]].value>>]]

(***************************************************************************)
(* bk_tree.py: BKTree                                                       *)
(***************************************************************************)
Keys(d) == {d[i].value : i \in DOMAIN d}

has_node(d, string) == string \in Keys(d)

\* the position of the entry of a key that is present
RefOf(d, string) == CHOOSE i \in DOMAIN d : d[i].value = string

\* a count that leaves out the inactive nodes
get_num_nodes_active(d) == Cardinality({i \in DOMAIN d : d[i].is_active})

get_num_nodes(d) == Len(d)

get_nodes(d) == Keys(d)

\* an insertion distance computed with max_distance = 1 (early exit)
insert_distance_bounded(s1, s2, fw) == levenshtein_distance(s1, s2, Some(1), fw)

\* the distance add_node computes, lines 220-224: no max_distance
insert_distance(s1, s2, fw) == levenshtein_distance(s1, s2, None, fw)

\* an add_node loop that puts the new Node in the place of the child at a
\* distance that is taken, instead of descending
add_descend_replacing(d, current_bk_node, bk_node, fw) ==
    LET lev_dist == insert_distance(d[current_bk_node].value, d[bk_node].value, fw)
    IN [d EXCEPT ![current_bk_node].links =
           Append(SelectSeq(@, LAMBDA l : l[1] # lev_dist), <<lev_dist, bk_node>>)]

\* the loop of add_node, lines 219-230; bk_node is the reference of the new Node
RECURSIVE add_descend(_, _, _, _)
add_descend(d, current_bk_node, bk_node, fw) ==
    LET lev_dist == insert_distance(d[current_bk_node].value, d[bk_node].value, fw)
    IN IF ~has_distance(d[current_bk_node], lev_dist)
       THEN [d EXCEPT ![current_bk_node] = add_link(@, lev_dist, bk_node)]
       ELSE add_descend(d, get_link(d[current_bk_node], lev_dist), bk_node, fw)

\* an add_node that re-activates the node of a value already indexed
add_node_reactivating(d, rt, string, fw) ==
    IF has_node(d, string)
    THEN [err |-> "ValueError", nodes |-> [d EXCEPT ![RefOf(d, string)] = set_active(@)]]
    ELSE LET d1 == Append(d, BKNode(string, TRUE))
         IN IF lev_raises(d1[rt].value, string)
            THEN [err |-> "TypeError", nodes |-> d1]
            ELSE [err |-> "ok", nodes |-> add_descend(d1, rt, Len(d1), fw)]

\* add_node, lines 210-230: the error raised and bk_nodes_dict when the call ends
add_node(d, rt, string, fw) ==
    IF has_node(d, string)
    THEN [err |-> "ValueError", nodes |-> d]
    ELSE LET d1 == Append(d, BKNode(string, TRUE))
         IN IF lev_raises(d1[rt].value, string)
            THEN [err |-> "TypeError", nodes |-> d1]
            ELSE [err |-> "ok", nodes |-> add_descend(d1, rt, Len(d1), fw)]

\* __getitem__, lines 51-54: the KeyError of a value that is no key
getitem_raises(d, string) == ~has_node(d, string)

\* a distance computed with a max_distance, which may stop early
query_distance_bounded(string, value, fw) == levenshtein_distance(string, value, Some(1), fw)

\* the distance get_neighbors computes, lines 159-163
query_distance(string, value, fw) == levenshtein_distance(string, value, None, fw)

\* neighbors.setdefault(lev_dist, set()).add(value), line 166
bucket_add(neighbors, lev_dist, value) ==
    [k \in DOMAIN neighbors \cup {lev_dist} |->
        IF k = lev_dist
        THEN (IF k \in DOMAIN neighbors THEN neighbors[k] ELSE {}) \cup {value}
        ELSE neighbors[k]]

\* a band whose lower end is excluded
in_band_strict(lev_dist, max_distance, node_distance) ==
    /\ lev_dist - max_distance < node_distance
    /\ node_distance <= lev_dist + max_distance

\* the test of lines 169-173

in_band(lev_dist, max_distance, node_distance) ==
    /\ lev_dist - max_distance <= node_distance
    /\ node_distance <= lev_dist + max_distance

\* the loop of get_neighbors, lines 157-174; the stack holds references
RECURSIVE gn_loop(_, _, _, _, _, _)
gn_loop(d, stack, string, max_distance, fw, neighbors) ==
    IF stack = <<>> THEN neighbors
    ELSE LET current_node == d[stack[Len(stack)]]
             popped == SubSeq(stack, 1, Len(stack) - 1)
             lev_dist == query_distance(string, current_node.value, fw)
             found == IF lev_dist <= max_distance /\ current_node.is_active
                      THEN bucket_add(neighbors, lev_dist, current_node.value)
                      ELSE neighbors
             kept == SelectSeq(current_node.links,
                               LAMBDA l : in_band(lev_dist, max_distance, l[1]))
             pushed == [i \in DOMAIN kept |-> kept[i][2]]
         IN gn_loop(d, popped \o pushed, string, max_distance, fw, found)

\* get_neighbors, lines 152-176, for a str argument
get_neighbors(d, rt, string, max_distance, fw) ==
    gn_loop(d, <<rt>>, string, max_distance, fw, <<>>)

\* the order of Python's str: by code point, a proper prefix first
str_lt(a, b) ==
    \/ \E k \in 1..Min2(Len(a), Len(b)) :
          /\ a[k] < b[k]
          /\ \A j \in 1..(k - 1) : a[j] = b[j]
    \/ /\ Len(a) < Len(b)
       /\ \A j \in 1..Len(a) : a[j] = b[j]

\* the last string of the sorted list instead of the first
sorted_last(S) == CHOOSE x \in S : \A y \in S : x = y \/ str_lt(y, x)

\* list.sort() followed by [0], lines 256-259

sorted_first(S) == CHOOSE x \in S : \A y \in S : x = y \/ str_lt(x, y)

\* round(n / 5): n / 5 is never half way between two integers
round_fifth(n) == (2 * n + 5) \div 10

\* max(round(len(string) / 5) + 1, 2), line 250
adaptive_radius(string) == Max2(round_fifth(Len(string)) + 1, 2)

\* a suggest_correction without the test of lines 246-247
suggest_correction_unchecked(d, rt, string, fw) ==
    LET suggestions == get_neighbors(d, rt, string, adaptive_radius(string), fw)
    IN IF DOMAIN suggestions = {}
       THEN None
       ELSE Some(sorted_first(suggestions[SetMin(DOMAIN suggestions)]))

\* suggest_correction, lines 246-259, for a str argument
suggest_correction(d, rt, string, fw) ==
    IF has_node(d, string) /\ d[RefOf(d, string)].is_active
    THEN None
    ELSE LET suggestions == get_neighbors(d, rt, string, adaptive_radius(string), fw)
         IN IF DOMAIN suggestions = {}
            THEN None
            ELSE Some(sorted_first(suggestions[SetMin(DOMAIN suggestions)]))

\* BKTree.to_dict, lines 286-289
to_dict(d, rt) ==
    [root |-> d[rt].value,
     nodes |-> [i \in DOMAIN d |-> node_to_dict(d, d[i])]]

(***************************************************************************)
(* bk_tree.py: the builders                                                 *)
(***************************************************************************)
\* the loop of bk_tree_builder_from_set, lines 363-364, over the strings in
\* the order the set yields them
RECURSIVE from_set_loop(_, _, _)
from_set_loop(d, strings, fw) ==
    IF strings = <<>> THEN d
    ELSE from_set_loop(add_node(d, 1, Head(strings), fw).nodes, Tail(strings), fw)

\* bk_tree_builder_from_set, lines 360-366, for a non-empty set of str:
\* order[1] is the string strings_set.pop() returns
bk_tree_builder_from_set(order, fw) ==
    from_set_loop(<<BKNode(order[1], TRUE)>>, Tail(order), fw)

\* a build that makes a tree without nodes of the empty set
build_from_set_unchecked(order, fw) ==
    IF order = <<>>
    THEN [err |-> "ok", val |-> Some([root |-> 1, nodes |-> <<>>]), strings_set |-> {}]
    ELSE [err |-> "ok",
          val |-> Some([root |-> 1, nodes |-> bk_tree_builder_from_set(order, fw)]),
          strings_set |-> {order[i] : i \in 2..Len(order)}]

\* BKTree.build("from_set", strings_set), lines 355-366, for a set of str
\* that yields its elements in the given order: the error raised, the BKTree
\* returned, and strings_set as the call leaves it, without the string that
\* strings_set.pop() has taken out of it (line 360)
build_from_set(order, fw) ==
    IF order = <<>>
    THEN [err |-> "ValueError", val |-> None, strings_set |-> {}]
    ELSE [err |-> "ok",
          val |-> Some([root |-> 1, nodes |-> bk_tree_builder_from_set(order, fw)]),
          strings_set |-> {order[i] : i \in 2..Len(order)}]

\* a Node that ignores the "is_active" of its entry
node_of_entry_active(entry) == BKNode(entry.value, TRUE)

\* the Node made of one entry of "nodes", line 419
node_of_entry(entry) == BKNode(entry.value, entry.is_active)

\* the dict comprehension of lines 418-421: a repeated key keeps its place
\* and takes the later Node
RECURSIVE dict_of_entries(_, _, _)
dict_of_entries(nodes, i, acc) ==
    IF i > Len(nodes) THEN acc
    ELSE LET n == node_of_entry(nodes[i])
         IN dict_of_entries(nodes, i + 1,
                IF has_node(acc, n.value)
                THEN [acc EXCEPT ![RefOf(acc, n.value)] = n]
                ELSE Append(acc, n))

\* a variant of the loops below that passes over a link to an undefined node
RECURSIVE link_entries_skipping(_, _, _, _)
link_entries_skipping(bk, nodes, i, j) ==
    IF i > Len(nodes) THEN [err |-> "ok", nodes |-> bk]
    ELSE IF j > Len(nodes[i].links) THEN link_entries_skipping(bk, nodes, i + 1, 1)
    ELSE LET distance == nodes[i].links[j][1]
             node == nodes[i].links[j][2]
             parent == RefOf(bk, nodes[i].value)
         IN IF ~has_node(bk, node)
            THEN link_entries_skipping(bk, nodes, i, j + 1)
            ELSE IF has_distance(bk[parent], distance)
            THEN [err |-> "KeyError", nodes |-> bk]
            ELSE link_entries_skipping(
                     [bk EXCEPT ![parent] = add_link(@, distance, RefOf(bk, node))],
                     nodes, i, j + 1)

\* the loops of lines 427-434: entry i of "nodes", item j of its links
RECURSIVE link_entries(_, _, _, _)
link_entries(bk, nodes, i, j) ==
    IF i > Len(nodes) THEN [err |-> "ok", nodes |-> bk]
    ELSE IF j > Len(nodes[i].links) THEN link_entries(bk, nodes, i + 1, 1)
    ELSE LET distance == nodes[i].links[j][1]
             node == nodes[i].links[j][2]
             parent == RefOf(bk, nodes[i].value)
         IN IF ~has_node(bk, node)
            THEN [err |-> "KeyError", nodes |-> bk]
            ELSE IF has_distance(bk[parent], distance)
            THEN [err |-> "KeyError", nodes |-> bk]
            ELSE link_entries(
                     [bk EXCEPT ![parent] = add_link(@, distance, RefOf(bk, node))],
                     nodes, i, j + 1)

\* the dict without items, {}
EmptyDict == <<>>

\* bk_tree_builder_from_dict, lines 415-436, for the empty dict and for a
\* dict with "root" and "nodes": the error raised and the BKTree returned
bk_tree_builder_from_dict(bk_tree_dict) ==
    IF DOMAIN bk_tree_dict = {}
    THEN [err |-> "ValueError", val |-> None]
    ELSE LET bk == dict_of_entries(bk_tree_dict.nodes, 1, <<>>)
         IN IF ~has_node(bk, bk_tree_dict.root)
            THEN [err |-> "KeyError", val |-> None]
            ELSE LET linked == link_entries(bk, bk_tree_dict.nodes, 1, 1)
                 IN IF linked.err = "ok"
                    THEN [err |-> "ok",
                          val |-> Some([root |-> RefOf(bk, bk_tree_dict.root),
                                        nodes |-> linked.nodes])]
                    ELSE [err |-> linked.err, val |-> None]

(***************************************************************************)
(* The inputs of the operations                                             *)
(***************************************************************************)
\* the orders in which a set can yield its elements
Orders(S) == {o \in [1..Cardinality(S) -> S] : \A i, j \in DOMAIN o : i # j => o[i] # o[j]}

RemoveAt(s, j) == [i \in 1..(Len(s) - 1) |-> IF i < j THEN s[i] ELSE s[i + 1]]

InsertAt(s, p, x) ==
    [i \in 1..(Len(s) + 1) |-> IF i < p THEN s[i] ELSE IF i = p THEN x ELSE s[i - 1]]

\* the seeds of a second tree: the empty set, the sets of one string, and a
\* set of two strings in both orders
SeedOrders == {<<>>} \cup {<<s>> : s \in Strings} \cup Orders(LinkNames)

\* the exported record without entry j of "nodes"
WithoutEntry(rec, j) == [rec EXCEPT !.nodes = RemoveAt(@, j)]

\* the exported record with one more item in the links of entry i, at place p
WithLink(rec, i, p, item) == [rec EXCEPT !.nodes[i].links = InsertAt(@, p, item)]

\* a link of the record names a value that no entry of "nodes" has
HasUndefinedLink(rec) ==
    /\ rec # EmptyDict
    /\ \E i \in DOMAIN rec.nodes : \E j \in DOMAIN rec.nodes[i].links :
          \A k \in DOMAIN rec.nodes : rec.nodes[k].value # rec.nodes[i].links[j][2]

(***************************************************************************)
(* keyboard.py: Keyboard.  A key is a code point.  A coordinate is a pair   *)
(* of numbers counted in halves, <<3, 2>> is (1.5, 1.0), so that the        *)
(* coordinates of the model are exact floats.  _keys, an insertion-ordered  *)
(* dict that the code iterates, is the sequence of its <<key, coordinate>>  *)
(* items; _keys_weight, a dict of dicts that the code only reads and writes *)
(* by key, is a function from keys to functions from keys to weights, and   *)
(* two of them are equal as the dicts are equal.                            *)
(***************************************************************************)
\* largest number of keys of a keyboard
MaxKeys == 3
\* largest coordinate, in halves
MaxCoord == 3

\* the keys a keyboard may hold: 'a', 's', 't'
KeyNames == {97, 115, 116}
\* the characters that are looked up and typed: the keys and 'x'
KbChars == KeyNames \cup {120}
Coordinates == (0..MaxCoord) \X (0..1)
\* the default of the parameter default_weight of get_weight
DefaultWeight == 2
DefaultWeights == 0..MaxWeight

\* functions.py, euclidean_distance, line 101, before the root is taken: the
\* square of the distance, in quarters (the coordinates are in halves)
euclidean_distance(p1, p2) ==
    (p1[1] - p2[1]) * (p1[1] - p2[1]) + (p1[2] - p2[2]) * (p1[2] - p2[2])

\* int(round(d)) for the distance d whose square is m quarters, d = sqrt(m) / 2:
\* the integer nearest to d, and the even one of the two when d is halfway
\* (round(0.5) = 0, round(1.5) = 2, round(2.5) = 2)
int_round(m) ==
    CHOOSE r \in 0..(m + 1) :
        /\ \/ r = 0
           \/ (2 * r - 1) * (2 * r - 1) < m
           \/ (2 * r - 1) * (2 * r - 1) = m /\ r % 2 = 0
        /\ \/ m < (2 * r + 1) * (2 * r + 1)
           \/ m = (2 * r + 1) * (2 * r + 1) /\ r % 2 = 0

\* d[k] = v
dict_set(d, k, v) == [x \in (DOMAIN d) \cup {k} |-> IF x = k THEN v ELSE d[x]]
\* d.setdefault(k, v), as the dict it leaves
dict_setdefault(d, k, v) == IF k \in DOMAIN d THEN d ELSE dict_set(d, k, v)
\* del d[k]
dict_del(d, k) == [x \in (DOMAIN d) \ {k} |-> d[x]]
\* {k: v}
dict_of(k, v) == [x \in {k} |-> v]

KeysOf(ks) == {ks[i][1] : i \in DOMAIN ks}
has_key(ks, key) == key \in KeysOf(ks)
\* _keys[key], for a key that is present
coordinate_of(ks, key) == ks[CHOOSE i \in DOMAIN ks : ks[i][1] = key][2]

\* an inner loop that stores every pair, however far apart
RECURSIVE init_inner_all(_, _, _, _)
init_inner_all(kw, keys_list, i, ii) ==
    IF ii > Len(keys_list) THEN kw
    ELSE LET key_i == keys_list[i][1]
             key_ii == keys_list[ii][1]
             weight == int_round(euclidean_distance(keys_list[i][2], keys_list[ii][2]))
             kw1 == dict_set(kw, key_i, dict_set(kw[key_i], key_ii, weight))
             kw2 == dict_setdefault(kw1, key_ii, dict_of(key_ii, 0))
             kw3 == dict_set(kw2, key_ii, dict_set(kw2[key_ii], key_i, weight))
         IN init_inner_all(kw3, keys_list, i, ii + 1)

\* __init__, the inner loop, lines 28-37
RECURSIVE init_inner(_, _, _, _)
init_inner(kw, keys_list, i, ii) ==
    IF ii > Len(keys_list) THEN kw
    ELSE LET key_i == keys_list[i][1]
             key_ii == keys_list[ii][1]
             weight == int_round(euclidean_distance(keys_list[i][2], keys_list[ii][2]))
         IN IF weight > 1
            THEN init_inner(kw, keys_list, i, ii + 1)
            ELSE LET kw1 == dict_set(kw, key_i, dict_set(kw[key_i], key_ii, weight))
                     kw2 == dict_setdefault(kw1, key_ii, dict_of(key_ii, 0))
                     kw3 == dict_set(kw2, key_ii, dict_set(kw2[key_ii], key_i, weight))
                 IN init_inner(kw3, keys_list, i, ii + 1)

\* __init__, the outer loop, lines 26-37
RECURSIVE init_outer(_, _, _)
init_outer(kw, keys_list, i) ==
    IF i > Len(keys_list) THEN kw
    ELSE LET kw1 == dict_setdefault(kw, keys_list[i][1], dict_of(keys_list[i][1], 0))
         IN init_outer(init_inner(kw1, keys_list, i, i + 1), keys_list, i + 1)

\* Keyboard(keys): the _keys_weight that __init__ leaves, lines 22-37
Keyboard(ks) == init_outer(<<>>, ks, 1)

\* a lookup that takes the default for every pair of different keys
get_weight_default(ks, kw, k1, k2, default_weight) ==
    IF has_key(ks, k1) /\ k1 = k2 THEN kw[k1][k2] ELSE default_weight

\* get_weight, lines 136-140
get_weight(ks, kw, k1, k2, default_weight) ==
    IF has_key(ks, k1)
    THEN (IF k2 \in DOMAIN kw[k1] THEN kw[k1][k2] ELSE default_weight)
    ELSE default_weight

\* the loop of add_key, lines 161-167, over the items of _keys from item i on
RECURSIVE add_key_loop(_, _, _, _, _)
add_key_loop(kw, ks, i, key, coordinate) ==
    IF i > Len(ks) THEN kw
    ELSE LET k == ks[i][1]
             weight == int_round(euclidean_distance(ks[i][2], coordinate))
         IN IF weight > 1
            THEN add_key_loop(kw, ks, i + 1, key, coordinate)
            ELSE LET kw1 == dict_set(kw, k, dict_setdefault(kw[k], key, weight))
                     kw2 == dict_setdefault(kw1, key, dict_of(key, 0))
                     kw3 == dict_set(kw2, key, dict_setdefault(kw2[key], k, weight))
                 IN add_key_loop(kw3, ks, i + 1, key, coordinate)

\* an add_key that gives the new key its own row and nothing more
add_key_alone(ks, kw, key, coordinate) ==
    IF has_key(ks, key)
    THEN [err |-> "ValueError", keys |-> ks, keys_weight |-> kw]
    ELSE [err |-> "ok", keys |-> Append(ks, <<key, coordinate>>),
          keys_weight |-> dict_set(kw, key, dict_of(key, 0))]

\* add_key, lines 156-167: the error raised, _keys and _keys_weight at the end
add_key(ks, kw, key, coordinate) ==
    IF has_key(ks, key)
    THEN [err |-> "ValueError", keys |-> ks, keys_weight |-> kw]
    ELSE LET ks1 == Append(ks, <<key, coordinate>>)
             kw1 == dict_set(kw, key, dict_of(key, 0))
         IN [err |-> "ok", keys |-> ks1,
             keys_weight |-> add_key_loop(kw1, ks1, 1, key, coordinate)]

\* del_key, lines 202-208; line 206 raises KeyError when a key k of the row
\* of key has no row or no entry for key
del_key(ks, kw, key) ==
    IF ~has_key(ks, key)
    THEN [err |-> "ValueError", keys |-> ks, keys_weight |-> kw]
    ELSE IF \E k \in DOMAIN kw[key] : k \notin DOMAIN kw \/ key \notin DOMAIN kw[k]
    THEN [err |-> "KeyError", keys |-> ks, keys_weight |-> kw]
    ELSE [err |-> "ok",
          keys |-> SelectSeq(ks, LAMBDA item : item[1] # key),
          keys_weight |-> [k \in (DOMAIN kw) \ {key} |->
                              IF k \in DOMAIN kw[key] THEN dict_del(kw[k], key)
                              ELSE kw[k]]]

\* update_key, lines 183-187
update_key(ks, kw, key, coordinate) ==
    IF ~has_key(ks, key)
    THEN [err |-> "ValueError", keys |-> ks, keys_weight |-> kw]
    ELSE LET r == del_key(ks, kw, key)
         IN IF r.err # "ok" THEN r
            ELSE add_key(r.keys, r.keys_weight, key, coordinate)

(***************************************************************************)
(* The state machine: one BKTree, built by from_set, and the calls on it.   *)
(* The program is single-threaded and synchronous: a call runs to its end, *)
(* the caller takes what it returned, and only then makes the next call.    *)
(* ret is the call that has just ended: its name, argument, error ("ok"     *)
(* when none) and returned value; it is Idle once the caller has taken it.  *)
(***************************************************************************)
Idle == [op |-> "idle", arg |-> None, err |-> "ok", val |-> None]

Init ==
    \E S \in SUBSET Strings :
        /\ S # {}
        /\ Cardinality(S) <= MaxNodes
        /\ \E order \in Orders(S) :
              /\ bk_nodes_dict = bk_tree_builder_from_set(order, None)
              /\ root = 1
              /\ fn_weights = None
              /\ keys = <<>>
              /\ keys_weight = <<>>
              /\ ret = [op |-> "from_set", arg |-> S, err |-> "ok", val |-> None]

AddNode(string) ==
    /\ ret.op = "idle"
    /\ Len(bk_nodes_dict) < MaxNodes \/ has_node(bk_nodes_dict, string)
    /\ LET r == add_node(bk_nodes_dict, root, string, fn_weights)
       IN /\ bk_nodes_dict' = r.nodes
          /\ ret' = [op |-> "add_node", arg |-> string, err |-> r.err, val |-> None]
    /\ UNCHANGED <<root, fn_weights, keys, keys_weight>>

\* tree[string].set_inactive()
SetInactive(string) ==
    /\ ret.op = "idle"
    /\ IF getitem_raises(bk_nodes_dict, string)
       THEN /\ ret' = [op |-> "set_inactive", arg |-> string, err |-> "KeyError", val |-> None]
            /\ UNCHANGED bk_nodes_dict
       ELSE /\ ret' = [op |-> "set_inactive", arg |-> string, err |-> "ok", val |-> None]
            /\ bk_nodes_dict' = [bk_nodes_dict EXCEPT
                                    ![RefOf(bk_nodes_dict, string)] = set_inactive(@)]
    /\ UNCHANGED <<root, fn_weights, keys, keys_weight>>

\* tree[string].set_active()
SetActive(string) ==
    /\ ret.op = "idle"
    /\ IF getitem_raises(bk_nodes_dict, string)
       THEN /\ ret' = [op |-> "set_active", arg |-> string, err |-> "KeyError", val |-> None]
            /\ UNCHANGED bk_nodes_dict
       ELSE /\ ret' = [op |-> "set_active", arg |-> string, err |-> "ok", val |-> None]
            /\ bk_nodes_dict' = [bk_nodes_dict EXCEPT
                                    ![RefOf(bk_nodes_dict, string)] = set_active(@)]
    /\ UNCHANGED <<root, fn_weights, keys, keys_weight>>

HasNode(string) ==
    /\ ret.op = "idle"
    /\ ret' = [op |-> "has_node", arg |-> string, err |-> "ok",
               val |-> has_node(bk_nodes_dict, string)]
    /\ UNCHANGED <<bk_nodes_dict, root, fn_weights, keys, keys_weight>>

GetNeighbors(string, max_distance) ==
    /\ ret.op = "idle"
    /\ ret' = [op |-> "get_neighbors", arg |-> <<string, max_distance>>, err |-> "ok",
               val |-> get_neighbors(bk_nodes_dict, root, string, max_distance, fn_weights)]
    /\ UNCHANGED <<bk_nodes_dict, root, fn_weights, keys, keys_weight>>

SuggestCorrection(string) ==
    /\ ret.op = "idle"
    /\ ret' = [op |-> "suggest_correction", arg |-> string, err |-> "ok",
               val |-> suggest_correction(bk_nodes_dict, root, string, fn_weights)]
    /\ UNCHANGED <<bk_nodes_dict, root, fn_weights, keys, keys_weight>>

\* BKTree.build("from_dict", rec): a second tree, returned in ret.val
FromDict(rec) ==
    /\ ret.op = "idle"
    /\ LET r == bk_tree_builder_from_dict(rec)
       IN ret' = [op |-> "from_dict", arg |-> rec, err |-> r.err, val |-> r.val]
    /\ UNCHANGED <<bk_nodes_dict, root, fn_weights, keys, keys_weight>>

\* from_dict of the empty dict
FromDictEmpty == FromDict(EmptyDict)

\* BKTree.build("from_set", strings_set): a second tree, returned in ret.val;
\* order is the order in which the set yields its elements
FromSet(order) ==
    /\ ret.op = "idle"
    /\ LET r == build_from_set(order, None)
       IN ret' = [op |-> "build_from_set", arg |-> order, err |-> r.err, val |-> r.val,
                  strings_set |-> r.strings_set]
    /\ UNCHANGED <<bk_nodes_dict, root, fn_weights, keys, keys_weight>>

\* from_dict of the export of the tree
FromDictExported == FromDict(to_dict(bk_nodes_dict, root))

\* from_dict of the export without entry j of "nodes"
FromDictWithoutEntry(j) == FromDict(WithoutEntry(to_dict(bk_nodes_dict, root), j))

\* from_dict of the export with a link to the undefined value w added to entry i
FromDictWithLink(i, p, distance, w) ==
    /\ ret.op = "idle"
    /\ p <= Len(bk_nodes_dict[i].links) + 1
    /\ ~has_distance(bk_nodes_dict[i], distance)
    /\ ~has_node(bk_nodes_dict, w)
    /\ FromDict(WithLink(to_dict(bk_nodes_dict, root), i, p, <<distance, w>>))

\* the caller takes the outcome of the call that has ended
Return ==
    /\ ret.op \notin {"idle", "add_node_loop"}
    /\ ret' = Idle
    /\ UNCHANGED <<bk_nodes_dict, root, fn_weights, keys, keys_weight>>

Next ==
    \/ Return
    \/ \E string \in Values : AddNode(string)
    \/ \E string \in Values : SetInactive(string)
    \/ \E string \in Values : SetActive(string)
    \/ \E string \in Values : HasNode(string)
    \/ \E string \in QueryStrings : \E max_distance \in Radii :
          GetNeighbors(string, max_distance)
    \/ \E string \in QueryStrings : SuggestCorrection(string)
    \/ \E order \in SeedOrders : FromSet(order)
    \/ FromDictEmpty
    \/ FromDictExported
    \/ \E j \in DOMAIN bk_nodes_dict : FromDictWithoutEntry(j)
    \/ \E i \in DOMAIN bk_nodes_dict : \E p \in 1..MaxNodes : \E distance \in 0..MaxLen :
          \E w \in LinkNames : FromDictWithLink(i, p, distance, w)

Spec == Init /\ [][Next]_vars

(***************************************************************************)
(* What the properties speak of                                             *)
(***************************************************************************)
IsActive(d, x) == d[RefOf(d, x)].is_active

\* the indexed values that are str and active
ActiveStrings(d) == {x \in Keys(d) : is_str(x) /\ IsActive(d, x)}

\* the distance of the tree, exact
Dist(a, b) == levenshtein_distance(a, b, None, fn_weights)

\* the linear scan: every active indexed string within k of v, under its distance
LinearScan(d, v, k) ==
    LET hits == {u \in ActiveStrings(d) : Dist(v, u) <= k}
    IN [dist \in {Dist(v, u) : u \in hits} |-> {u \in hits : Dist(v, u) = dist}]

\* the values in the buckets of a result of get_neighbors
Found(neighbors) == UNION {neighbors[k] : k \in DOMAIN neighbors}

\* the links of a node, by the value of the child
LinksByValue(d, i) == {<<d[i].links[j][1], d[d[i].links[j][2]].value>> : j \in DOMAIN d[i].links}

\* the references reachable from rt in at most n steps along links
RECURSIVE ReachableWithin(_, _, _)
ReachableWithin(d, rt, n) ==
    IF n = 0 THEN {rt}
    ELSE LET R == ReachableWithin(d, rt, n - 1)
         IN R \cup {d[i].links[j][2] : <<i, j>> \in {<<i, j>> \in R \X (DOMAIN d) :
                                                       j \in DOMAIN d[i].links}}

Reachable(d, rt) == ReachableWithin(d, rt, Len(d))

\* the links that lead to the node r
LinksTo(d, r) == {ij \in (DOMAIN d) \X (DOMAIN d) :
                     ij[2] \in DOMAIN d[ij[1]].links /\ d[ij[1]].links[ij[2]][2] = r}

\* some node other than the root has a child
HasGrandchild(d, rt) == \E i \in DOMAIN d : i # rt /\ d[i].links # <<>>

(***************************************************************************)
(* C1: get_neighbors(v, k) of a tree without weight function returns the    *)
(* active indexed values within distance k of v, each in the bucket of its  *)
(* distance: the result of a linear scan over the active values.            *)
(***************************************************************************)
RangeQueryIsLinearScan ==
    ret.op = "get_neighbors" =>
        ret.val = LinearScan(bk_nodes_dict, ret.arg[1], ret.arg[2])

\* a query that finds a value, leaves out an inactive value within the radius
\* and does not descend into some child
RangeQueryWitness ==
    /\ ret.op = "get_neighbors"
    /\ Found(ret.val) # {}
    /\ \E i \in DOMAIN bk_nodes_dict :
          /\ ~bk_nodes_dict[i].is_active
          /\ Dist(ret.arg[1], bk_nodes_dict[i].value) <= ret.arg[2]
    /\ \E i \in DOMAIN bk_nodes_dict : \E j \in DOMAIN bk_nodes_dict[i].links :
          ~in_band(Dist(ret.arg[1], bk_nodes_dict[i].value), ret.arg[2],
                   bk_nodes_dict[i].links[j][1])

(***************************************************************************)
(* C2: every link <<d, C>> of every node N has d equal to the exact         *)
(* distance between the values of N and C: add_node never stores a bounded  *)
(* distance.                                                                *)
(***************************************************************************)
LinksHoldExactDistance ==
    \A i \in DOMAIN bk_nodes_dict : \A j \in DOMAIN bk_nodes_dict[i].links :
        Dist(bk_nodes_dict[i].value,
             bk_nodes_dict[bk_nodes_dict[i].links[j][2]].value)
          = bk_nodes_dict[i].links[j][1]

\* an insert has attached a node below a child of the root, and some link
\* holds a distance above 1
ExactDistanceWitness ==
    /\ ret.op = "add_node"
    /\ ret.err = "ok"
    /\ HasGrandchild(bk_nodes_dict, root)
    /\ \E i \in DOMAIN bk_nodes_dict : \E j \in DOMAIN bk_nodes_dict[i].links :
          bk_nodes_dict[i].links[j][1] > 1

(***************************************************************************)
(* C3: the keys of bk_nodes_dict are the values of the nodes reachable from *)
(* the root, and each of them is reached by exactly one path: the root has  *)
(* no parent and every other node has exactly one.                          *)
(***************************************************************************)
MapIsTreeFromRoot ==
    /\ Reachable(bk_nodes_dict, root) = DOMAIN bk_nodes_dict
    /\ \A r \in DOMAIN bk_nodes_dict :
          Cardinality(LinksTo(bk_nodes_dict, r)) = IF r = root THEN 0 ELSE 1

(***************************************************************************)
(* C4: add_node of a value that is a key of bk_nodes_dict, active or not,   *)
(* raises ValueError and changes nothing: not the entries, not the links,   *)
(* not the active flags.                                                    *)
(***************************************************************************)
DuplicateInsertChangesNothing ==
    [][(ret.op = "idle" /\ ret'.op = "add_node" /\ has_node(bk_nodes_dict, ret'.arg))
          => (ret'.err = "ValueError" /\ UNCHANGED <<bk_nodes_dict, root>>)]_vars

\* a refused insert of a value that is indexed and inactive
DuplicateInsertWitness ==
    /\ ret.op = "add_node"
    /\ ret.err = "ValueError"
    /\ ~IsActive(bk_nodes_dict, ret.arg)
    /\ Len(bk_nodes_dict) > 1

(***************************************************************************)
(* C5: whenever add_node raises an error, bk_nodes_dict and the links of    *)
(* every node are as they were before the call.                             *)
(***************************************************************************)
FailedInsertChangesNothing ==
    [][(ret.op = "idle" /\ ret'.op = "add_node" /\ ret'.err # "ok")
          => UNCHANGED <<bk_nodes_dict, root>>]_vars

(***************************************************************************)
(* C6: a value that set_inactive has deactivated stays inactive and indexed *)
(* until set_active is called on it, whatever is inserted meanwhile; while  *)
(* it is inactive no result of get_neighbors holds it, has_node returns     *)
(* True for it and the lookup of it does not raise.                         *)
(***************************************************************************)
DeactivatedIsHidden ==
    /\ [](\A i \in DOMAIN bk_nodes_dict :
            ~bk_nodes_dict[i].is_active =>
                /\ ret.op = "get_neighbors" => bk_nodes_dict[i].value \notin Found(ret.val)
                /\ (ret.op = "has_node" /\ ret.arg = bk_nodes_dict[i].value) => ret.val
                /\ ~getitem_raises(bk_nodes_dict, bk_nodes_dict[i].value))
    /\ [][(ret.op = "idle" /\ ret'.op = "set_inactive" /\ ret'.err = "ok")
            => (has_node(bk_nodes_dict', ret'.arg) /\ ~IsActive(bk_nodes_dict', ret'.arg))]_vars
    /\ [][\A x \in Keys(bk_nodes_dict) :
            (~IsActive(bk_nodes_dict, x) /\ ~(ret'.op = "set_active" /\ ret'.arg = x))
                => (has_node(bk_nodes_dict', x) /\ ~IsActive(bk_nodes_dict', x))]_vars

\* a query whose radius covers an inactive value, in a tree that has grown
\* to its largest
DeactivatedWitness ==
    /\ ret.op = "get_neighbors"
    /\ Len(bk_nodes_dict) = MaxNodes
    /\ Found(ret.val) # {}
    /\ \E i \in DOMAIN bk_nodes_dict :
          /\ ~bk_nodes_dict[i].is_active
          /\ bk_nodes_dict[i].links # <<>>
          /\ Dist(ret.arg[1], bk_nodes_dict[i].value) <= ret.arg[2]

(***************************************************************************)
(* C7: from_dict of to_dict of the tree returns a tree with the same root   *)
(* value, the same values, the same active flag for every value, the same   *)
(* links (distance and child value) on every node, and the same results of  *)
(* get_neighbors for every string and radius.                               *)
(***************************************************************************)
RoundTripKeepsTree ==
    (ret.op = "from_dict" /\ ret.arg = to_dict(bk_nodes_dict, root)) =>
        /\ ret.err = "ok"
        /\ ret.val.some
        /\ LET t == ret.val.val
           IN /\ t.nodes[t.root].value = bk_nodes_dict[root].value
              /\ get_nodes(t.nodes) = get_nodes(bk_nodes_dict)
              /\ \A x \in Keys(bk_nodes_dict) :
                    /\ IsActive(t.nodes, x) = IsActive(bk_nodes_dict, x)
                    /\ LinksByValue(t.nodes, RefOf(t.nodes, x))
                         = LinksByValue(bk_nodes_dict, RefOf(bk_nodes_dict, x))
              /\ \A v \in QueryStrings : \A k \in Radii :
                    get_neighbors(t.nodes, t.root, v, k, fn_weights)
                      = get_neighbors(bk_nodes_dict, root, v, k, fn_weights)

\* the round trip of a tree of three levels with an inactive node
RoundTripWitness ==
    /\ ret.op = "from_dict"
    /\ ret.arg = to_dict(bk_nodes_dict, root)
    /\ ret.err = "ok"
    /\ HasGrandchild(bk_nodes_dict, root)
    /\ \E i \in DOMAIN bk_nodes_dict : ~bk_nodes_dict[i].is_active

(***************************************************************************)
(* C8: from_dict of a record in which a link names a value that no entry    *)
(* of "nodes" has raises KeyError and returns no tree, wherever the link    *)
(* stands among the nodes and links of the record.                          *)
(***************************************************************************)
UndefinedLinkIsRefused ==
    (ret.op = "from_dict" /\ HasUndefinedLink(ret.arg)) =>
        (ret.err = "KeyError" /\ ~ret.val.some)

\* the undefined link is the last item of the last entry, after two links
\* that are defined
UndefinedLinkWitness ==
    /\ ret.op = "from_dict"
    /\ ret.err = "KeyError"
    /\ LET nodes == ret.arg.nodes
           last == nodes[Len(nodes)]
       IN /\ Len(nodes) = MaxNodes
          /\ last.links # <<>>
          /\ \A k \in DOMAIN nodes : nodes[k].value # last.links[Len(last.links)][2]
          /\ ~HasUndefinedLink([ret.arg EXCEPT
                                   !.nodes[Len(nodes)].links = SubSeq(@, 1, Len(@) - 1)])

(***************************************************************************)
(* C9: suggest_correction(value) returns None if value is indexed and       *)
(* active; otherwise, with r = max(round(len(value) / 5) + 1, 2), it        *)
(* returns None iff no active indexed string is within r of value, and else *)
(* the smallest, in the order of str, of the active indexed strings at the  *)
(* least distance from value.                                               *)
(***************************************************************************)
\* the integer nearest to n / 5
NearestFifth(n) ==
    CHOOSE q \in 0..n : \A m \in 0..n : (5 * q - n) * (5 * q - n) <= (5 * m - n) * (5 * m - n)

NearestActive(d, value) ==
    IF value \in ActiveStrings(d) THEN None
    ELSE LET r == Max2(NearestFifth(Len(value)) + 1, 2)
             act == ActiveStrings(d)
         IN IF \A u \in act : Dist(value, u) > r THEN None
            ELSE LET least == SetMin({Dist(value, u) : u \in act})
                     best == {u \in act : Dist(value, u) = least}
                 IN Some(CHOOSE u \in best : \A w \in best : ~str_lt(w, u))

SuggestionIsNearestActive ==
    ret.op = "suggest_correction" =>
        LET want == NearestActive(bk_nodes_dict, ret.arg)
        IN /\ ret.val.some = want.some
           /\ want.some => ret.val.val = want.val

\* a suggestion for an indexed, inactive value, chosen among two active
\* strings at the same least distance
SuggestionWitness ==
    /\ ret.op = "suggest_correction"
    /\ ret.val.some
    /\ has_node(bk_nodes_dict, ret.arg)
    /\ \E u \in ActiveStrings(bk_nodes_dict) :
          /\ u # ret.val.val
          /\ Dist(ret.arg, u) = Dist(ret.arg, ret.val.val)

\* no suggestion although an active string is indexed: it is beyond the radius
SuggestionOutOfReach ==
    /\ ret.op = "suggest_correction"
    /\ ~ret.val.some
    /\ ActiveStrings(bk_nodes_dict) # {}
    /\ ~has_node(bk_nodes_dict, ret.arg)

(***************************************************************************)
(* C10: the tree from_set builds from a set S of distinct strings has       *)
(* get_num_nodes() = |S| and get_nodes() = S; every successful add_node     *)
(* raises get_num_nodes() by one and adds its value to get_nodes(); and     *)
(* get_num_nodes() never decreases.                                         *)
(***************************************************************************)
SizeCountsValues ==
    /\ [](ret.op = "from_set" =>
            /\ get_num_nodes(bk_nodes_dict) = Cardinality(ret.arg)
            /\ get_nodes(bk_nodes_dict) = ret.arg)
    /\ [][(ret.op = "idle" /\ ret'.op = "add_node" /\ ret'.err = "ok")
            => /\ get_num_nodes(bk_nodes_dict') = get_num_nodes(bk_nodes_dict) + 1
               /\ get_nodes(bk_nodes_dict') = get_nodes(bk_nodes_dict) \cup {ret'.arg}]_vars
    /\ [][get_num_nodes(bk_nodes_dict') >= get_num_nodes(bk_nodes_dict)]_vars

\* a successful insert that fills the tree and attaches below a child of the root
SizeWitness ==
    /\ ret.op = "add_node"
    /\ ret.err = "ok"
    /\ get_num_nodes(bk_nodes_dict) = MaxNodes
    /\ HasGrandchild(bk_nodes_dict, root)

(***************************************************************************)
(* C18: from_set of the empty set and from_dict of the empty dict raise     *)
(* ValueError and return no tree.                                           *)
(***************************************************************************)
EmptySeedIsRefused ==
    /\ (ret.op = "build_from_set" /\ ret.arg = <<>>) =>
          (ret.err = "ValueError" /\ ~ret.val.some)
    /\ (ret.op = "from_dict" /\ ret.arg = EmptyDict) =>
          (ret.err = "ValueError" /\ ~ret.val.some)
    /\ (ret.op = "build_from_set" /\ ret.arg # <<>>) =>
          (ret.err = "ok" /\ ret.val.some)

\* from_set has refused the empty set
EmptySetWitness ==
    /\ ret.op = "build_from_set"
    /\ ret.arg = <<>>
    /\ ret.err = "ValueError"

\* from_dict has refused the empty dict
EmptyDictWitness ==
    /\ ret.op = "from_dict"
    /\ ret.arg = EmptyDict
    /\ ret.err = "ValueError"

(***************************************************************************)
(* The distance function on its own: levenshtein_distance called with any   *)
(* two arguments, with or without max_distance, and with the weight         *)
(* function the caller supplies (fn_weights), which need not be symmetric.  *)
(* No tree and no keyboard exist in this specification.                     *)
(***************************************************************************)
\* the weight functions: a cost for every ordered pair of differing characters
\* (the code never asks the cost of a character against itself, line 68)
WeightFns ==
    {w \in [Chars \X Chars -> 0..MaxWeight] : \A c \in Chars : w[<<c, c>>] = 0}

InitLev ==
    /\ bk_nodes_dict = <<>>
    /\ root = 0
    /\ fn_weights \in {None} \cup {Some(w) : w \in WeightFns}
    /\ keys = <<>>
    /\ keys_weight = <<>>
    /\ ret = Idle

\* levenshtein_distance(s1, s2, max_distance = max_distance, fn_weights = fn_weights)
Levenshtein(s1, s2, max_distance) ==
    /\ ret.op = "idle"
    /\ IF lev_raises(s1, s2)
       THEN ret' = [op |-> "levenshtein_distance",
                    arg |-> [s1 |-> s1, s2 |-> s2, max_distance |-> max_distance],
                    err |-> "TypeError", val |-> None]
       ELSE ret' = [op |-> "levenshtein_distance",
                    arg |-> [s1 |-> s1, s2 |-> s2, max_distance |-> max_distance],
                    err |-> "ok",
                    val |-> Some(levenshtein_distance(s1, s2, max_distance, fn_weights))]
    /\ UNCHANGED <<bk_nodes_dict, root, fn_weights, keys, keys_weight>>

\* the values of max_distance
MaxDistances == {None} \cup {Some(m) : m \in 0..(MaxQueryLen + 1)}

NextLev ==
    \/ Return
    \/ \E s1, s2 \in QueryStrings \cup {NotAStr} : \E max_distance \in MaxDistances :
          Levenshtein(s1, s2, max_distance)

SpecLev == InitLev /\ [][NextLev]_vars

\* a call of levenshtein_distance that has returned a distance
LevReturned == ret.op = "levenshtein_distance" /\ ret.err = "ok"

\* what the same call returns without max_distance
Exact(s1, s2) == levenshtein_distance(s1, s2, None, fn_weights)

\* the cost of a substitution in an edit script that turns s1 into s2: c1 is
\* the character of s1, c2 the character of s2 that replaces it
ScriptSubCost(c1, c2) == IF fn_weights.some THEN fn_weights.val[<<c1, c2>>] ELSE 1

\* the least cost of an edit script that turns the first i characters of s1
\* into the first j characters of s2
RECURSIVE EditCost(_, _, _, _)
EditCost(s1, s2, i, j) ==
    IF i = 0 THEN j
    ELSE IF j = 0 THEN i
    ELSE Min3(EditCost(s1, s2, i - 1, j) + 1,
              EditCost(s1, s2, i, j - 1) + 1,
              EditCost(s1, s2, i - 1, j - 1)
                  + (IF s1[i] = s2[j] THEN 0 ELSE ScriptSubCost(s1[i], s2[j])))

(***************************************************************************)
(* C11: without max_distance, distance(s1, s2) is the least cost of an edit *)
(* script turning s1 into s2, where an insertion and a deletion cost 1 and  *)
(* the substitution of c1 by a differing c2 costs weightFn(c1, c2) if a     *)
(* weight function is supplied, else 1; distance(s, s) = 0 and              *)
(* distance("", s) = distance(s, "") = len(s).                              *)
(***************************************************************************)
DistanceIsEditCost ==
    (LevReturned /\ ~ret.arg.max_distance.some) =>
        /\ ret.val.val = EditCost(ret.arg.s1, ret.arg.s2, Len(ret.arg.s1), Len(ret.arg.s2))
        /\ ret.arg.s1 = ret.arg.s2 => ret.val.val = 0
        /\ ret.arg.s1 = <<>> => ret.val.val = Len(ret.arg.s2)
        /\ ret.arg.s2 = <<>> => ret.val.val = Len(ret.arg.s1)

\* the weight function gives a pair of characters the same cost in both orders
SymmetricWeights ==
    fn_weights.some =>
        \A c1, c2 \in Chars : fn_weights.val[<<c1, c2>>] = fn_weights.val[<<c2, c1>>]

\* the distance is the least cost of an edit script when the weights are symmetric
DistanceIsEditCostIfSymmetric == SymmetricWeights => DistanceIsEditCost

\* the minima of the rows the outer loop completes when nothing stops it
RECURSIVE row_minima(_, _, _, _, _)
row_minima(s1, s2, i, current_distances, fw) ==
    IF i > Len(s1) THEN {}
    ELSE LET row == lev_inner(current_distances, <<i>>, s1[i], s2, 1, fw)
         IN {SeqMin(row)} \cup row_minima(s1, s2, i + 1, row, fw)

\* the call leaves the outer loop at line 81
EarlyExit(s1, s2, m) ==
    /\ s1 # <<>> /\ s2 # <<>> /\ s1 # s2
    /\ LET a == IF Len(s1) < Len(s2) THEN s2 ELSE s1
           b == IF Len(s1) < Len(s2) THEN s1 ELSE s2
       IN \E r \in row_minima(a, b, 1, [j \in 1..(Len(b) + 1) |-> j - 1], fn_weights) :
             r >= m

(***************************************************************************)
(* C12: with max_distance m, the returned value never exceeds the exact     *)
(* distance; when the exact distance is below m there is no early exit and  *)
(* the exact distance is returned; when the exact distance is at least m    *)
(* the returned value is at least m.  Without weights and with any          *)
(* non-negative weight function.                                            *)
(***************************************************************************)
BoundedIsLowerBound ==
    (LevReturned /\ ret.arg.max_distance.some) =>
        LET m == ret.arg.max_distance.val
            exact == Exact(ret.arg.s1, ret.arg.s2)
        IN /\ ret.val.val <= exact
           /\ exact < m => (~EarlyExit(ret.arg.s1, ret.arg.s2, m) /\ ret.val.val = exact)
           /\ exact >= m => ret.val.val >= m

\* an early exit that returns less than the exact distance, with weights
BoundedWitness ==
    /\ LevReturned
    /\ ret.arg.max_distance.some
    /\ fn_weights.some
    /\ EarlyExit(ret.arg.s1, ret.arg.s2, ret.arg.max_distance.val)
    /\ ret.val.val < Exact(ret.arg.s1, ret.arg.s2)
    /\ ret.val.val >= ret.arg.max_distance.val
    /\ ret.arg.max_distance.val > 0

(***************************************************************************)
(* C13 as stated: distance(a, b) = distance(b, a) for all strings a and b,  *)
(* without a weight function and with any weight function supplied.         *)
(***************************************************************************)
DistanceIsSymmetric ==
    (LevReturned /\ ~ret.arg.max_distance.some) =>
        ret.val.val = Exact(ret.arg.s2, ret.arg.s1)

(***************************************************************************)
(* C13, amended: distance(a, b) = distance(b, a) for all strings a and b,   *)
(* without a weight function and with a weight function that is itself      *)
(* symmetric, weightFn(c1, c2) = weightFn(c2, c1).                          *)
(***************************************************************************)
DistanceIsSymmetricForSymmetricWeights ==
    (LevReturned /\ ~ret.arg.max_distance.some /\ SymmetricWeights) =>
        ret.val.val = Exact(ret.arg.s2, ret.arg.s1)

\* a weighted call whose first argument is the shorter one, so that line 50
\* swaps the arguments, and whose cheapest script pays for a substitution
SymmetricWitness ==
    /\ LevReturned
    /\ ~ret.arg.max_distance.some
    /\ fn_weights.some
    /\ SymmetricWeights
    /\ ret.arg.s1 # <<>>
    /\ Len(ret.arg.s1) < Len(ret.arg.s2)
    /\ ret.val.val > Len(ret.arg.s2) - Len(ret.arg.s1)
    /\ ret.val.val < Len(ret.arg.s2)

(***************************************************************************)
(* C14: the unweighted distance satisfies the triangle inequality:          *)
(* distance(a, c) <= distance(a, b) + distance(b, c) for all a, b, c.       *)
(***************************************************************************)
TriangleInequality ==
    (LevReturned /\ ~ret.arg.max_distance.some /\ ~fn_weights.some) =>
        \A b \in QueryStrings :
            ret.val.val <= Exact(ret.arg.s1, b) + Exact(b, ret.arg.s2)

\* an unweighted distance of at least 2 met with equality through a third string
TriangleWitness ==
    /\ LevReturned
    /\ ~ret.arg.max_distance.some
    /\ ~fn_weights.some
    /\ ret.val.val >= 2
    /\ ret.arg.s1 # <<>>
    /\ ret.arg.s2 # <<>>
    /\ \E b \in QueryStrings :
          /\ b # <<>>
          /\ b # ret.arg.s1
          /\ b # ret.arg.s2
          /\ ret.val.val = Exact(ret.arg.s1, b) + Exact(b, ret.arg.s2)

(***************************************************************************)
(* add_node step by step: the loop of lines 219-230 one iteration at a      *)
(* time.  While the call runs, ret.op is "add_node_loop" and ret.val holds  *)
(* the locals of the loop: current_bk_node, bk_node, and the number of      *)
(* distance computations made so far.                                       *)
(***************************************************************************)
\* an iteration that stays on the node it is on when the slot is taken
add_step_staying(d, current_bk_node, bk_node, fw) ==
    LET lev_dist == insert_distance(d[current_bk_node].value, d[bk_node].value, fw)
    IN IF ~has_distance(d[current_bk_node], lev_dist)
       THEN [done |-> TRUE, current_bk_node |-> current_bk_node,
             nodes |-> [d EXCEPT ![current_bk_node] = add_link(@, lev_dist, bk_node)]]
       ELSE [done |-> FALSE, current_bk_node |-> current_bk_node, nodes |-> d]

\* one iteration, lines 220-230: break after add_link, or move to the child
add_step(d, current_bk_node, bk_node, fw) ==
    LET lev_dist == insert_distance(d[current_bk_node].value, d[bk_node].value, fw)
    IN IF ~has_distance(d[current_bk_node], lev_dist)
       THEN [done |-> TRUE, current_bk_node |-> current_bk_node,
             nodes |-> [d EXCEPT ![current_bk_node] = add_link(@, lev_dist, bk_node)]]
       ELSE [done |-> FALSE, current_bk_node |-> get_link(d[current_bk_node], lev_dist),
             nodes |-> d]

\* add_node up to the loop, lines 210-218
StartAddNode(string) ==
    /\ ret.op = "idle"
    /\ Len(bk_nodes_dict) < MaxNodes \/ has_node(bk_nodes_dict, string)
    /\ IF has_node(bk_nodes_dict, string)
       THEN /\ ret' = [op |-> "add_node", arg |-> string, err |-> "ValueError", val |-> None]
            /\ UNCHANGED bk_nodes_dict
       ELSE /\ bk_nodes_dict' = Append(bk_nodes_dict, BKNode(string, TRUE))
            /\ ret' = [op |-> "add_node_loop", arg |-> string, err |-> "ok",
                       val |-> Some([current_bk_node |-> root,
                                     bk_node |-> Len(bk_nodes_dict) + 1,
                                     computed |-> 0])]
    /\ UNCHANGED <<root, fn_weights, keys, keys_weight>>

\* one iteration of the loop of add_node
DescendStep ==
    /\ ret.op = "add_node_loop"
    /\ ret.val.val.computed <= MaxNodes
    /\ LET l == ret.val.val
       IN IF lev_raises(bk_nodes_dict[l.current_bk_node].value, ret.arg)
          THEN /\ ret' = [op |-> "add_node", arg |-> ret.arg, err |-> "TypeError",
                          val |-> Some([l EXCEPT !.computed = @ + 1])]
               /\ UNCHANGED bk_nodes_dict
          ELSE LET s == add_step(bk_nodes_dict, l.current_bk_node, l.bk_node, fn_weights)
               IN /\ bk_nodes_dict' = s.nodes
                  /\ ret' = [op |-> IF s.done THEN "add_node" ELSE "add_node_loop",
                             arg |-> ret.arg, err |-> "ok",
                             val |-> Some([l EXCEPT !.current_bk_node = s.current_bk_node,
                                                    !.computed = @ + 1])]
    /\ UNCHANGED <<root, fn_weights, keys, keys_weight>>

NextInsert ==
    \/ Return
    \/ \E string \in Values : StartAddNode(string)
    \/ DescendStep

\* a call that has begun runs on: the program is single-threaded and nothing
\* but the loop itself decides when add_node ends
SpecInsert == Init /\ [][NextInsert]_vars /\ WF_vars(DescendStep)

\* the number of links from the root rt to the node r, by the links that
\* lead to r (0 for the root)
RECURSIVE DepthOf(_, _, _, _)
DepthOf(d, rt, r, fuel) ==
    IF r = rt \/ fuel = 0 \/ LinksTo(d, r) = {} THEN 0
    ELSE 1 + DepthOf(d, rt, (CHOOSE ij \in LinksTo(d, r) : TRUE)[1], fuel - 1)

\* the depth of the tree: the largest depth of a node reachable from the root
TreeDepth(d, rt) ==
    CHOOSE m \in 0..Len(d) :
        /\ \E r \in Reachable(d, rt) : DepthOf(d, rt, r, Len(d)) = m
        /\ \A r \in Reachable(d, rt) : DepthOf(d, rt, r, Len(d)) <= m

\* the loop, started anywhere on its way, ends as add_node ends
LoopIsAddNode ==
    (ret.op = "add_node_loop" /\ is_str(ret.arg)) =>
        add_descend(bk_nodes_dict, ret.val.val.current_bk_node, ret.val.val.bk_node,
                    fn_weights)
          = add_node(SubSeq(bk_nodes_dict, 1, Len(bk_nodes_dict) - 1), root, ret.arg,
                     fn_weights).nodes

(***************************************************************************)
(* C15: every insert of a string that is not yet indexed terminates: each   *)
(* iteration of the descent that does not attach moves to a node one level  *)
(* deeper, and the loop ends by attaching the new node at a free distance   *)
(* of the node it has reached, after at most (depth of the tree + 1)        *)
(* distance computations.                                                   *)
(***************************************************************************)
InsertTerminates ==
    /\ (ret.op = "add_node_loop") ~> (ret.op = "add_node")
    /\ [][(ret.op = "add_node_loop" /\ ret'.op = "add_node_loop") =>
            /\ ret'.val.val.current_bk_node \in Reachable(bk_nodes_dict, root)
            /\ DepthOf(bk_nodes_dict, root, ret'.val.val.current_bk_node, Len(bk_nodes_dict))
                 = DepthOf(bk_nodes_dict, root, ret.val.val.current_bk_node,
                           Len(bk_nodes_dict)) + 1]_vars
    /\ [][(ret.op = "add_node_loop" /\ ret'.op = "add_node" /\ ret'.err = "ok") =>
            LET l == ret'.val.val
                lev_dist == insert_distance(bk_nodes_dict[l.current_bk_node].value,
                                            ret.arg, fn_weights)
            IN /\ ~has_distance(bk_nodes_dict[l.current_bk_node], lev_dist)
               /\ has_distance(bk_nodes_dict'[l.current_bk_node], lev_dist)
               /\ get_link(bk_nodes_dict'[l.current_bk_node], lev_dist) = l.bk_node
               /\ l.computed <= TreeDepth(bk_nodes_dict, root) + 1]_vars

\* an insert that has ended below the root, after as many computations as
\* the tree had levels
InsertWitness ==
    /\ ret.op = "add_node"
    /\ ret.err = "ok"
    /\ ret.val.some
    /\ ret.val.val.computed = MaxNodes - 1
    /\ ret.val.val.current_bk_node # root
    /\ is_str(ret.arg)

(***************************************************************************)
(* The keyboard on its own: one Keyboard, built from a dict of keys, and    *)
(* the calls on it.  No tree exists in this specification.                  *)
(***************************************************************************)
\* the dicts a Keyboard is built from: distinct keys, in any order
KeyLists ==
    UNION {{ks \in [1..n -> KeyNames \X Coordinates] :
               \A i, j \in 1..n : i # j => ks[i][1] # ks[j][1]} : n \in 0..MaxKeys}

\* the words of the typing scenario: "as", "at", "ax"
Word_as == <<97, 115>>
Word_at == <<97, 116>>
Word_ax == <<97, 120>>
Words == {Word_as, Word_at, Word_ax}

\* the weight function a keyboard gives to levenshtein_distance: its
\* get_weight, with the default default_weight
kb_weights(ks, kw) ==
    [p \in KbChars \X KbChars |-> get_weight(ks, kw, p[1], p[2], DefaultWeight)]

InitKb ==
    \E ks \in KeyLists :
        /\ keys = ks
        /\ keys_weight = Keyboard(ks)
        /\ bk_nodes_dict = <<>>
        /\ root = 0
        /\ fn_weights = None
        /\ ret = [op |-> "Keyboard", arg |-> ks, err |-> "ok", val |-> None]

AddKey(key, coordinate) ==
    /\ ret.op = "idle"
    /\ Len(keys) < MaxKeys \/ has_key(keys, key)
    /\ LET r == add_key(keys, keys_weight, key, coordinate)
       IN /\ keys' = r.keys
          /\ keys_weight' = r.keys_weight
          /\ ret' = [op |-> "add_key", arg |-> <<key, coordinate>>, err |-> r.err,
                     val |-> None]
    /\ UNCHANGED <<bk_nodes_dict, root, fn_weights>>

UpdateKey(key, coordinate) ==
    /\ ret.op = "idle"
    /\ LET r == update_key(keys, keys_weight, key, coordinate)
       IN /\ keys' = r.keys
          /\ keys_weight' = r.keys_weight
          /\ ret' = [op |-> "update_key", arg |-> <<key, coordinate>>, err |-> r.err,
                     val |-> None]
    /\ UNCHANGED <<bk_nodes_dict, root, fn_weights>>

DelKey(key) ==
    /\ ret.op = "idle"
    /\ LET r == del_key(keys, keys_weight, key)
       IN /\ keys' = r.keys
          /\ keys_weight' = r.keys_weight
          /\ ret' = [op |-> "del_key", arg |-> key, err |-> r.err, val |-> None]
    /\ UNCHANGED <<bk_nodes_dict, root, fn_weights>>

GetWeight(k1, k2, default_weight) ==
    /\ ret.op = "idle"
    /\ ret' = [op |-> "get_weight",
               arg |-> [k1 |-> k1, k2 |-> k2, default_weight |-> default_weight],
               err |-> "ok",
               val |-> Some(get_weight(keys, keys_weight, k1, k2, default_weight))]
    /\ UNCHANGED <<bk_nodes_dict, root, fn_weights, keys, keys_weight>>

\* levenshtein_distance(s1, s2, fn_weights = keyboard.get_weight)
KeyboardDistance(s1, s2) ==
    /\ ret.op = "idle"
    /\ ret' = [op |-> "keyboard_distance", arg |-> [s1 |-> s1, s2 |-> s2], err |-> "ok",
               val |-> Some(levenshtein_distance(s1, s2, None,
                                                 Some(kb_weights(keys, keys_weight))))]
    /\ UNCHANGED <<bk_nodes_dict, root, fn_weights, keys, keys_weight>>

NextKb ==
    \/ Return
    \/ \E key \in KeyNames : \E coordinate \in Coordinates : AddKey(key, coordinate)
    \/ \E key \in KeyNames : \E coordinate \in Coordinates : UpdateKey(key, coordinate)
    \/ \E key \in KeyNames : DelKey(key)
    \/ \E k1, k2 \in KbChars : \E default_weight \in DefaultWeights :
          GetWeight(k1, k2, default_weight)
    \/ \E s1, s2 \in Words : KeyboardDistance(s1, s2)

SpecKb == InitKb /\ [][NextKb]_vars

\* the rounded distance of two keys of the keyboard
Rounded(k1, k2) ==
    int_round(euclidean_distance(coordinate_of(keys, k1), coordinate_of(keys, k2)))

(***************************************************************************)
(* C16: after the construction of a Keyboard and any sequence of successful *)
(* add_key, update_key and del_key, the cost table is the table a fresh     *)
(* construction from the current keys gives: a row for exactly the current  *)
(* keys, cost(k, k) = 0, an entry (k1, k2) iff the rounded distance of the  *)
(* two coordinates is at most 1, holding that rounded distance, the same in *)
(* both directions, and no entry for a key that was removed.                *)
(***************************************************************************)
TableIsFreshTable ==
    /\ ret.err \notin {"KeyError"}
    /\ keys_weight = Keyboard(keys)
    /\ DOMAIN keys_weight = KeysOf(keys)
    /\ \A k1 \in KeysOf(keys) :
          /\ DOMAIN keys_weight[k1] \subseteq KeysOf(keys)
          /\ keys_weight[k1][k1] = 0
          /\ \A k2 \in KeysOf(keys) \ {k1} :
                /\ k2 \in DOMAIN keys_weight[k1] <=> Rounded(k1, k2) <= 1
                /\ k2 \in DOMAIN keys_weight[k1] =>
                      /\ keys_weight[k1][k2] = Rounded(k1, k2)
                      /\ k1 \in DOMAIN keys_weight[k2]
                      /\ keys_weight[k2][k1] = keys_weight[k1][k2]

\* a successful update_key on a full keyboard that leaves the moved key with
\* a neighbour at rounded distance 0, one at 1 and the other two keys apart
TableWitness ==
    /\ ret.op = "update_key"
    /\ ret.err = "ok"
    /\ Len(keys) = MaxKeys
    /\ \E k1, k2 \in KeysOf(keys) \ {ret.arg[1]} :
          /\ Rounded(ret.arg[1], k1) = 0
          /\ Rounded(ret.arg[1], k2) = 1
          /\ Rounded(k1, k2) > 1

\* two different keys of the keyboard whose rounded distance is at most 1
Neighbours(k1, k2) ==
    /\ k1 # k2
    /\ has_key(keys, k1)
    /\ has_key(keys, k2)
    /\ Rounded(k1, k2) <= 1

\* the distance of two words under the keyboard's weights
KbDistance(s1, s2) ==
    levenshtein_distance(s1, s2, None, Some(kb_weights(keys, keys_weight)))

(***************************************************************************)
(* C17 as stated: on every keyboard where 'a' and 's' are adjacent (cost 1) *)
(* and 'x' is not adjacent to 't', distance("as", "at") is less than        *)
(* distance("ax", "at") under the keyboard's weights.                       *)
(***************************************************************************)
AdjacentTypoIsCheaper ==
    (/\ ret.op = "keyboard_distance"
     /\ ret.arg.s1 = Word_as
     /\ ret.arg.s2 = Word_at
     /\ Neighbours(97, 115) /\ Rounded(97, 115) = 1
     /\ ~Neighbours(120, 116))
    => ret.val.val < KbDistance(Word_ax, Word_at)

(***************************************************************************)
(* C17, amended: on every keyboard where 's' and 't' are adjacent (cost at  *)
(* most 1) and 'x' is not adjacent to 't', distance("as", "at") is less     *)
(* than distance("ax", "at") under the keyboard's weights.                  *)
(***************************************************************************)
SubstitutedNeighbourIsCheaper ==
    (/\ ret.op = "keyboard_distance"
     /\ ret.arg.s1 = Word_as
     /\ ret.arg.s2 = Word_at
     /\ Neighbours(115, 116)
     /\ ~Neighbours(120, 116))
    => ret.val.val < KbDistance(Word_ax, Word_at)

\* "as" against "at" on a keyboard where 's' is next to 't' at cost 1 and
\* 'a' is a key far from both
SubstitutedNeighbourWitness ==
    /\ ret.op = "keyboard_distance"
    /\ ret.arg.s1 = Word_as
    /\ ret.arg.s2 = Word_at
    /\ Neighbours(115, 116)
    /\ Rounded(115, 116) = 1
    /\ has_key(keys, 97)
    /\ ~Neighbours(97, 115)
    /\ ret.val.val = 1

(***************************************************************************)
(* C20 as stated: for all characters k1 and k2, keys or not, and every      *)
(* default_weight, get_weight(k1, k2, default_weight) is 0 if k1 and k2 are *)
(* the same key, 1 if they are neighbours and default_weight otherwise; and *)
(* get_weight(k1, k2, w) = get_weight(k2, k1, w).                           *)
(***************************************************************************)
GetWeightIsZeroOneOrDefault ==
    ret.op = "get_weight" =>
        /\ ret.val.val = IF ret.arg.k1 = ret.arg.k2 THEN 0
                         ELSE IF Neighbours(ret.arg.k1, ret.arg.k2) THEN 1
                         ELSE ret.arg.default_weight
        /\ ret.val.val = get_weight(keys, keys_weight, ret.arg.k2, ret.arg.k1,
                                    ret.arg.default_weight)

\* what get_weight returns: 0 for a key of the keyboard against itself, the
\* rounded distance, 0 or 1, for two neighbours, default_weight otherwise,
\* also for a character that is no key against itself; the same in both orders
GetWeightIsTableOrDefault ==
    ret.op = "get_weight" =>
        /\ ret.val.val = IF ret.arg.k1 = ret.arg.k2 /\ has_key(keys, ret.arg.k1) THEN 0
                         ELSE IF Neighbours(ret.arg.k1, ret.arg.k2)
                              THEN Rounded(ret.arg.k1, ret.arg.k2)
                         ELSE ret.arg.default_weight
        /\ ret.val.val = get_weight(keys, keys_weight, ret.arg.k2, ret.arg.k1,
                                    ret.arg.default_weight)

(***************************************************************************)
(* The tree with the weights of a keyboard: a Keyboard of the three keys    *)
(* on one row, and a BKTree built by from_set with                          *)
(* fn_weights = keyboard.get_weight over words of at most one character.    *)
(***************************************************************************)
\* the words that are indexed and looked for: "", "a", "s", "t", "x"
KeyWords == {<<>>} \cup {<<c>> : c \in KbChars}

\* the keyboards of this specification: every key, on the row y = 0
RowKeyLists ==
    {ks \in KeyLists :
        /\ KeysOf(ks) = KeyNames
        /\ \A i \in DOMAIN ks : ks[i][2][2] = 0
        /\ \A i, j \in DOMAIN ks : i < j => ks[i][1] < ks[j][1]}

InitW ==
    \E ks \in RowKeyLists : \E S \in SUBSET KeyWords :
        /\ S # {}
        /\ Cardinality(S) <= MaxNodes
        /\ \E order \in Orders(S) :
              /\ keys = ks
              /\ keys_weight = Keyboard(ks)
              /\ fn_weights = Some(kb_weights(ks, Keyboard(ks)))
              /\ bk_nodes_dict =
                    bk_tree_builder_from_set(order, Some(kb_weights(ks, Keyboard(ks))))
              /\ root = 1
              /\ ret = [op |-> "from_set", arg |-> S, err |-> "ok", val |-> None]

NextW ==
    \/ Return
    \/ \E string \in KeyWords : AddNode(string)
    \/ \E string \in KeyWords : SetInactive(string)
    \/ \E string \in KeyWords : \E max_distance \in Radii :
          GetNeighbors(string, max_distance)

SpecW == InitW /\ [][NextW]_vars

\* two different keys of the keyboard lie at rounded distance 0
HasCoincidentKeys ==
    \E k1, k2 \in KeysOf(keys) : k1 # k2 /\ Rounded(k1, k2) = 0

(***************************************************************************)
(* C19: on a tree built with the weights of a keyboard (get_weight with     *)
(* default weight 2, any coordinates, also with two different keys at       *)
(* rounded distance 0), the pruning band never skips a match:               *)
(* get_neighbors(v, k) returns every active indexed value whose weighted    *)
(* distance to v is at most k.                                              *)
(***************************************************************************)
WeightedRangeQueryIsComplete ==
    ret.op = "get_neighbors" =>
        \A u \in ActiveStrings(bk_nodes_dict) :
            Dist(ret.arg[1], u) <= ret.arg[2] => u \in Found(ret.val)

\* the same on the keyboards where no two different keys lie at rounded
\* distance 0: there the range query is the linear scan
WeightedRangeQueryIsCompleteApart ==
    (ret.op = "get_neighbors" /\ ~HasCoincidentKeys) =>
        ret.val = LinearScan(bk_nodes_dict, ret.arg[1], ret.arg[2])

(***************************************************************************)
(* The frame of tree[string].set_inactive() and tree[string].set_active()   *)
(***************************************************************************)
\* a successful set_inactive or set_active has just been made
Toggles == ret'.op \in {"set_inactive", "set_active"} /\ ret'.err = "ok"

\* the step leaves everything but the active flag of the node of ret'.arg
OnlyTheFlagChanges ==
    /\ root' = root
    /\ Len(bk_nodes_dict') = Len(bk_nodes_dict)
    /\ \A i \in DOMAIN bk_nodes_dict :
          /\ bk_nodes_dict'[i].value = bk_nodes_dict[i].value
          /\ bk_nodes_dict'[i].links = bk_nodes_dict[i].links
          /\ bk_nodes_dict[i].value # ret'.arg
                => bk_nodes_dict'[i].is_active = bk_nodes_dict[i].is_active
          /\ bk_nodes_dict[i].value = ret'.arg
                => bk_nodes_dict'[i].is_active = (ret'.op = "set_active")

\* the values below the node of reference i
Descendants(d, i) == {d[j].value : j \in Reachable(d, i) \ {i}}

\* every active value within the radius that lies below an inactive node is
\* in the result
ActiveBelowInactiveFound ==
    ret.op = "get_neighbors" =>
        \A i \in Reachable(bk_nodes_dict, root) :
            ~bk_nodes_dict[i].is_active =>
                \A u \in Descendants(bk_nodes_dict, i) \cap ActiveStrings(bk_nodes_dict) :
                    Dist(ret.arg[1], u) <= ret.arg[2] => u \in Found(ret.val)

\* the tree after tree[string].set_active() is called on it
Activated(d, string) == [d EXCEPT ![RefOf(d, string)] = set_active(@)]

\* a set_inactive step after which set_active of the same value gives back
\* the results the queries had before the step
ActivateRestores ==
    LET d == Activated(bk_nodes_dict', ret'.arg)
    IN \A string \in QueryStrings : \A max_distance \in Radii :
          get_neighbors(d, root', string, max_distance, fn_weights)
              = get_neighbors(bk_nodes_dict, root, string, max_distance, fn_weights)

(***************************************************************************)
(* C21, as stated: set_inactive and set_active change only the active flag  *)
(* of their node (links of every node, the values, the root and the other   *)
(* flags stay); active values below an inactive node are still in the       *)
(* results of get_neighbors; and set_inactive followed by set_active of the *)
(* same value restores the results get_neighbors had before.                *)
(***************************************************************************)
ToggleRestoresResults ==
    /\ [][Toggles => OnlyTheFlagChanges]_vars
    /\ []ActiveBelowInactiveFound
    /\ [][(ret'.op = "set_inactive" /\ ret'.err = "ok") => ActivateRestores]_vars

(***************************************************************************)
(* C21, amended: the same, the last part for a value that was active before *)
(* set_inactive; for a value that was inactive the results after set_active *)
(* are those of the tree with the value active.                             *)
(***************************************************************************)
ToggleOfActiveRestoresResults ==
    /\ [][Toggles => OnlyTheFlagChanges]_vars
    /\ []ActiveBelowInactiveFound
    /\ [][(ret'.op = "set_inactive" /\ ret'.err = "ok"
              /\ IsActive(bk_nodes_dict, ret'.arg)) => ActivateRestores]_vars
    /\ [][(ret'.op = "set_inactive" /\ ret'.err = "ok")
              => Activated(bk_nodes_dict', ret'.arg) = Activated(bk_nodes_dict, ret'.arg)]_vars

\* set_inactive has been called on a node with an active child in a tree
\* that has grown to its largest
ToggleWitness ==
    /\ ret.op = "set_inactive"
    /\ ret.err = "ok"
    /\ Len(bk_nodes_dict) = MaxNodes
    /\ \E i \in DOMAIN bk_nodes_dict :
          /\ bk_nodes_dict[i].value = ret.arg
          /\ ~bk_nodes_dict[i].is_active
          /\ Descendants(bk_nodes_dict, i) \cap ActiveStrings(bk_nodes_dict) # {}

(***************************************************************************)
(* SpecNode: the calls of add_link, get_link and del_link on the nodes of   *)
(* a tree, tree[string].add_link(distance, tree[other]) and so on. A call   *)
(* that succeeds changes the links behind the tree's back, so these calls   *)
(* have a specification of their own.                                       *)
(***************************************************************************)
\* the nodes of the trees of SpecNode and the distances of the calls
MaxLinkedNodes == 2
MaxLinkDistance == 2
LinkDistances == 1..MaxLinkDistance

\* an add_link that replaces the child at a distance that is taken
node_add_link_replacing(node, distance, ref) ==
    [err |-> "ok", msg |-> "",
     node |-> [node EXCEPT !.links =
                  Append(SelectSeq(@, LAMBDA l : l[1] # distance), <<distance, ref>>)]]

\* add_link, lines 166-171: the error raised and the node afterwards
node_add_link(node, distance, ref) ==
    IF has_distance(node, distance)
    THEN [err |-> "KeyError", msg |-> "already exists", node |-> node]
    ELSE [err |-> "ok", msg |-> "", node |-> add_link(node, distance, ref)]

\* get_link, lines 99-102: the error raised and the reference returned
node_get_link(node, distance) ==
    IF has_distance(node, distance)
    THEN [err |-> "ok", msg |-> "", val |-> Some(get_link(node, distance))]
    ELSE [err |-> "KeyError", msg |-> "not exists", val |-> None]

\* del_link, lines 187-190: the error raised and the node afterwards
node_del_link(node, distance) ==
    IF has_distance(node, distance)
    THEN [err |-> "ok", msg |-> "",
          node |-> [node EXCEPT !.links = SelectSeq(@, LAMBDA l : l[1] # distance)]]
    ELSE [err |-> "KeyError", msg |-> "not exists", node |-> node]

InitNode ==
    \E S \in SUBSET Strings :
        /\ S # {}
        /\ Cardinality(S) <= MaxLinkedNodes
        /\ \E order \in Orders(S) :
              /\ bk_nodes_dict = bk_tree_builder_from_set(order, None)
              /\ root = 1
              /\ fn_weights = None
              /\ keys = <<>>
              /\ keys_weight = <<>>
              /\ ret = [op |-> "from_set", arg |-> S, err |-> "ok", val |-> None]

\* tree[string].add_link(distance, tree[other])
NodeAddLink(string, distance, other) ==
    /\ ret.op = "idle"
    /\ ~getitem_raises(bk_nodes_dict, string)
    /\ ~getitem_raises(bk_nodes_dict, other)
    /\ LET r == node_add_link(bk_nodes_dict[RefOf(bk_nodes_dict, string)], distance,
                              RefOf(bk_nodes_dict, other))
       IN /\ bk_nodes_dict' = [bk_nodes_dict EXCEPT ![RefOf(bk_nodes_dict, string)] = r.node]
          /\ ret' = [op |-> "add_link", arg |-> <<string, distance, other>>,
                     err |-> r.err, val |-> r.msg]
    /\ UNCHANGED <<root, fn_weights, keys, keys_weight>>

\* tree[string].get_link(distance)
NodeGetLink(string, distance) ==
    /\ ret.op = "idle"
    /\ ~getitem_raises(bk_nodes_dict, string)
    /\ LET r == node_get_link(bk_nodes_dict[RefOf(bk_nodes_dict, string)], distance)
       IN ret' = [op |-> "get_link", arg |-> <<string, distance>>,
                  err |-> r.err, val |-> r.msg]
    /\ UNCHANGED <<bk_nodes_dict, root, fn_weights, keys, keys_weight>>

\* tree[string].del_link(distance)
NodeDelLink(string, distance) ==
    /\ ret.op = "idle"
    /\ ~getitem_raises(bk_nodes_dict, string)
    /\ LET r == node_del_link(bk_nodes_dict[RefOf(bk_nodes_dict, string)], distance)
       IN /\ bk_nodes_dict' = [bk_nodes_dict EXCEPT ![RefOf(bk_nodes_dict, string)] = r.node]
          /\ ret' = [op |-> "del_link", arg |-> <<string, distance>>,
                     err |-> r.err, val |-> r.msg]
    /\ UNCHANGED <<root, fn_weights, keys, keys_weight>>

NextNode ==
    \/ Return
    \/ \E string \in Strings : \E distance \in LinkDistances : \E other \in Strings :
          NodeAddLink(string, distance, other)
    \/ \E string \in Strings : \E distance \in LinkDistances : NodeGetLink(string, distance)
    \/ \E string \in Strings : \E distance \in LinkDistances : NodeDelLink(string, distance)

SpecNode == InitNode /\ [][NextNode]_vars

\* the node the call of ret' was made on, before the call
Callee == bk_nodes_dict[RefOf(bk_nodes_dict, ret'.arg[1])]

\* no node has two links with one distance
DistancesAreDistinct(d) ==
    \A i \in DOMAIN d : \A j, k \in DOMAIN d[i].links :
        d[i].links[j][1] = d[i].links[k][1] => j = k

(***************************************************************************)
(* C22: in every reachable state every node has at most one child for each  *)
(* distance; add_link(d, node) on a node that has a child at d raises       *)
(* KeyError and leaves the node's links as they were, get_link(d) and       *)
(* del_link(d) on a node without a child at d raise the KeyError that says  *)
(* the distance does not exist, and leave the links as they were.           *)
(***************************************************************************)
OneChildPerDistance ==
    /\ []DistancesAreDistinct(bk_nodes_dict)
    /\ [][(ret'.op = "add_link" /\ has_distance(Callee, ret'.arg[2]))
            => /\ ret'.err = "KeyError"
               /\ bk_nodes_dict' = bk_nodes_dict]_vars
    /\ [][(ret'.op \in {"get_link", "del_link"} /\ ~has_distance(Callee, ret'.arg[2]))
            => /\ ret'.err = "KeyError"
               /\ ret'.val = "not exists"
               /\ bk_nodes_dict' = bk_nodes_dict]_vars

\* add_link has been refused on a node whose child at the distance is
\* another node than the one offered
OneChildWitness ==
    /\ ret.op = "add_link"
    /\ ret.err = "KeyError"
    /\ LET node == bk_nodes_dict[RefOf(bk_nodes_dict, ret.arg[1])]
       IN /\ has_distance(node, ret.arg[2])
          /\ bk_nodes_dict[get_link(node, ret.arg[2])].value # ret.arg[3]

(***************************************************************************)
(* The active flag of the nodes of the tree of Spec                         *)
(***************************************************************************)
\* a flag of an existing node differs after the step
FlagChanges(i) == bk_nodes_dict'[i].is_active # bk_nodes_dict[i].is_active

(***************************************************************************)
(* C23: a node made by from_set or by add_node starts active; a node made   *)
(* by from_dict starts with the "is_active" of its entry; afterwards the    *)
(* flag of a node changes only in a set_active or set_inactive call on that *)
(* node, which sets it to True and to False; add_node, get_neighbors,       *)
(* suggest_correction, has_node and the builders change no flag; and        *)
(* set_active on an active node and set_inactive on an inactive node change *)
(* nothing.                                                                 *)
(***************************************************************************)
FlagIsTwoStateMachine ==
    /\ [](ret.op = "from_set" => \A i \in DOMAIN bk_nodes_dict : bk_nodes_dict[i].is_active)
    /\ []((ret.op = "build_from_set" /\ ret.err = "ok") =>
              \A i \in DOMAIN ret.val.val.nodes : ret.val.val.nodes[i].is_active)
    /\ []((ret.op = "from_dict" /\ ret.err = "ok") =>
              /\ Len(ret.val.val.nodes) = Len(ret.arg.nodes)
              /\ \A j \in DOMAIN ret.arg.nodes :
                    /\ has_node(ret.val.val.nodes, ret.arg.nodes[j].value)
                    /\ IsActive(ret.val.val.nodes, ret.arg.nodes[j].value)
                         = ret.arg.nodes[j].is_active)
    /\ [][\A i \in DOMAIN bk_nodes_dict' :
             i \notin DOMAIN bk_nodes_dict => bk_nodes_dict'[i].is_active]_vars
    /\ [][\A i \in DOMAIN bk_nodes_dict :
             FlagChanges(i) =>
                 /\ ret'.op \in {"set_active", "set_inactive"}
                 /\ ret'.err = "ok"
                 /\ ret'.arg = bk_nodes_dict[i].value
                 /\ bk_nodes_dict'[i].is_active = (ret'.op = "set_active")]_vars
    /\ [][(ret'.op \in {"set_active", "set_inactive"} /\ ret'.err = "ok"
             /\ IsActive(bk_nodes_dict, ret'.arg) = (ret'.op = "set_active"))
            => bk_nodes_dict' = bk_nodes_dict]_vars
    /\ [][(ret'.op \in {"set_active", "set_inactive"} /\ ret'.err = "ok")
            => IsActive(bk_nodes_dict', ret'.arg) = (ret'.op = "set_active")]_vars

\* from_dict has rebuilt a tree of the largest size with an inactive and an
\* active node
FlagWitness ==
    /\ ret.op = "from_dict"
    /\ ret.err = "ok"
    /\ Len(ret.val.val.nodes) = MaxNodes
    /\ \E i, j \in DOMAIN ret.val.val.nodes :
          /\ ret.val.val.nodes[i].is_active
          /\ ~ret.val.val.nodes[j].is_active

(***************************************************************************)
(* The frame of a successful add_node                                       *)
(***************************************************************************)
\* the links of the tree as (parent, distance, child) over references
AllLinks(d) ==
    {<<i, d[i].links[j][1], d[i].links[j][2]>> :
        <<i, j>> \in {ij \in (DOMAIN d) \X (1..MaxNodes) : ij[2] \in DOMAIN d[ij[1]].links}}

\* add_node has just succeeded
Inserts == ret'.op = "add_node" /\ ret'.err = "ok"

(***************************************************************************)
(* C24: a successful add_node(string) adds one entry to the map, for the    *)
(* string, and one link in the whole tree, from a node that existed to the  *)
(* new node, which has no links; every link there was stays at its place    *)
(* in its node, and the root and the value and flag of every node that      *)
(* existed are unchanged.                                                   *)
(***************************************************************************)
InsertAddsOneLeaf ==
    [][Inserts =>
         LET new == Len(bk_nodes_dict) + 1
         IN /\ Len(bk_nodes_dict') = new
            /\ Keys(bk_nodes_dict') = Keys(bk_nodes_dict) \cup {ret'.arg}
            /\ ret'.arg \notin Keys(bk_nodes_dict)
            /\ bk_nodes_dict'[new] = BKNode(ret'.arg, TRUE)
            /\ root' = root
            /\ \A i \in DOMAIN bk_nodes_dict :
                  /\ bk_nodes_dict'[i].value = bk_nodes_dict[i].value
                  /\ bk_nodes_dict'[i].is_active = bk_nodes_dict[i].is_active
                  /\ \A j \in DOMAIN bk_nodes_dict[i].links :
                        /\ j \in DOMAIN bk_nodes_dict'[i].links
                        /\ bk_nodes_dict'[i].links[j] = bk_nodes_dict[i].links[j]
            /\ AllLinks(bk_nodes_dict) \subseteq AllLinks(bk_nodes_dict')
            /\ \E i \in DOMAIN bk_nodes_dict : \E distance \in 0..MaxLen :
                  AllLinks(bk_nodes_dict') \ AllLinks(bk_nodes_dict)
                      = {<<i, distance, new>>}]_vars

\* add_node has attached the last node the tree can hold below a node that
\* is not the root and that had a child already
InsertLeafWitness ==
    /\ ret.op = "add_node"
    /\ ret.err = "ok"
    /\ Len(bk_nodes_dict) = MaxNodes
    /\ bk_nodes_dict[MaxNodes].value = ret.arg
    /\ \E i \in DOMAIN bk_nodes_dict :
          /\ i # root
          /\ \E j \in DOMAIN bk_nodes_dict[i].links : bk_nodes_dict[i].links[j][2] = MaxNodes

(***************************************************************************)
(* C25: suggest_correction(value) never returns value itself and never      *)
(* returns a string that is inactive or not indexed; for a value that is    *)
(* indexed and inactive it returns an active string other than value at the *)
(* least distance within the adaptive radius, or None when there is none.   *)
(***************************************************************************)
SuggestionIsAnotherActiveString ==
    ret.op = "suggest_correction" =>
        /\ ret.val.some =>
              /\ ret.val.val # ret.arg
              /\ ret.val.val \in ActiveStrings(bk_nodes_dict)
        /\ (has_node(bk_nodes_dict, ret.arg) /\ ~IsActive(bk_nodes_dict, ret.arg)) =>
              LET r == Max2(NearestFifth(Len(ret.arg)) + 1, 2)
                  near == {u \in ActiveStrings(bk_nodes_dict) \ {ret.arg} :
                              Dist(ret.arg, u) <= r}
              IN IF near = {}
                 THEN ~ret.val.some
                 ELSE /\ ret.val.some
                      /\ ret.val.val \in near
                      /\ \A u \in near : Dist(ret.arg, ret.val.val) <= Dist(ret.arg, u)

\* a suggestion for an indexed, inactive value, passing over another
\* inactive value that is nearer
AnotherActiveWitness ==
    /\ ret.op = "suggest_correction"
    /\ ret.val.some
    /\ has_node(bk_nodes_dict, ret.arg)
    /\ ~IsActive(bk_nodes_dict, ret.arg)
    /\ \E w \in Keys(bk_nodes_dict) \ {ret.arg} :
          /\ is_str(w)
          /\ ~IsActive(bk_nodes_dict, w)
          /\ Dist(ret.arg, w) < Dist(ret.arg, ret.val.val)

(***************************************************************************)
(* SpecF: the tree with any weight function the caller may pass as          *)
(* fn_weights, symmetric or not, with weights 0 among them, and without     *)
(* one. The distance of such a tree need not be a metric.                   *)
(***************************************************************************)
InitF ==
    \E fw \in {None} \cup {Some(w) : w \in WeightFns} : \E S \in SUBSET Strings :
        /\ S # {}
        /\ Cardinality(S) <= MaxNodes
        /\ \E order \in Orders(S) :
              /\ bk_nodes_dict = bk_tree_builder_from_set(order, fw)
              /\ root = 1
              /\ fn_weights = fw
              /\ keys = <<>>
              /\ keys_weight = <<>>
              /\ ret = [op |-> "from_set", arg |-> S, err |-> "ok", val |-> None]

NextF ==
    \/ Return
    \/ \E string \in Strings : AddNode(string)
    \/ \E string \in Strings : SetInactive(string)
    \/ \E string \in Strings : \E max_distance \in Radii :
          GetNeighbors(string, max_distance)

SpecF == InitF /\ [][NextF]_vars

(***************************************************************************)
(* C26: with any weight function or none, every string in a result of       *)
(* get_neighbors(v, k) is an indexed, active value; it is in one bucket     *)
(* only, whose key is its distance from v, computed without max_distance,   *)
(* and is at most k; and no bucket of the result is empty.                  *)
(***************************************************************************)
RangeQueryIsSound ==
    ret.op = "get_neighbors" =>
        \A dist \in DOMAIN ret.val :
            /\ ret.val[dist] # {}
            /\ dist <= ret.arg[2]
            /\ \A u \in ret.val[dist] :
                  /\ u \in ActiveStrings(bk_nodes_dict)
                  /\ Dist(ret.arg[1], u) = dist
                  /\ \A other \in DOMAIN ret.val : u \in ret.val[other] => other = dist

\* a result of two buckets under a weight function that is not symmetric,
\* in a tree with an inactive value within the radius and an active value
\* within the radius that the query has missed
RangeQuerySoundWitness ==
    /\ ret.op = "get_neighbors"
    /\ fn_weights.some
    /\ fn_weights.val[<<97, 98>>] # fn_weights.val[<<98, 97>>]
    /\ Cardinality(DOMAIN ret.val) >= 2
    /\ \E u \in ActiveStrings(bk_nodes_dict) :
          Dist(ret.arg[1], u) <= ret.arg[2] /\ u \notin Found(ret.val)

(***************************************************************************)
(* The set the caller passes to BKTree.build("from_set", strings_set)       *)
(***************************************************************************)
\* the strings of the set before the call
SeedBefore == {ret.arg[i] : i \in DOMAIN ret.arg}

(***************************************************************************)
(* C27: from_set does not change the set of strings the caller passes:      *)
(* after the call the set holds every string it held before, and            *)
(* get_nodes() of the tree built equals that set.                           *)
(***************************************************************************)
FromSetKeepsCallersSet ==
    ret.op = "build_from_set" =>
        /\ SeedBefore \subseteq ret.strings_set
        /\ ret.err = "ok" => get_nodes(ret.val.val.nodes) = SeedBefore

\* what the call does: the tree holds the strings of the set, and the set
\* has lost the string that became the root
FromSetTakesTheRoot ==
    (ret.op = "build_from_set" /\ ret.err = "ok") =>
        /\ get_nodes(ret.val.val.nodes) = SeedBefore
        /\ ret.strings_set = SeedBefore \ {ret.val.val.nodes[ret.val.val.root].value}
        /\ ret.val.val.nodes[ret.val.val.root].value \in SeedBefore

====
